---- MODULE Spec2Model ----
(***************************************************************************)
(* A model of curve_cad's internal.py: axis-aligned bounding boxes, cubic  *)
(* Bezier evaluation, arc length, slicing, the broad and narrow phase of   *)
(* the curve intersection search, the deduplication and filtering of       *)
(* bezierIntersection, and bezierSubivideAt.                               *)
(*                                                                         *)
(* Numbers.  The program computes with Python floats.  The model computes  *)
(* with exact rationals [num, den] in lowest terms with den > 0, so two    *)
(* numbers are equal iff their records are equal.  float('inf') is the     *)
(* record with den = 0.  All inputs the model enumerates are dyadic or     *)
(* small rationals on which the float computation and the exact one take   *)
(* the same branches.                                                      *)
(*                                                                         *)
(* Sequences.  Python lists are 0-based; At(s, i) reads element i of a     *)
(* TLA+ sequence the way s[i] does in the source.                          *)
(***************************************************************************)
EXTENDS Integers, Sequences, FiniteSets, TLC

VARIABLES
    pc,          \* position of the running operation
    pointsA,     \* control points of the (first) curve, or a point list
    pointsB,     \* control points of the second curve, or a point list
    tollerance,  \* the tollerance argument of the running operation
    stack,       \* bezierIntersectionBroadPhase: pending calls, first on top
    solutions,   \* the solutions list (broad phase results / refined solutions)
    refined,     \* the refined solutions as they were before deduplication
    broadPhase,  \* bezierIntersectionNarrowPhase: the candidate rectangle argument
    aMin, aMax, bMin, bMax, minDist,  \* bezierIntersectionNarrowPhase locals
    iterations,  \* number of times the narrow phase loop body has run
    index, otherIndex,                \* loop counters
    paramsA, paramsB,                 \* output lists of bezierIntersection
    params, newPoints,                \* bezierSubivideAt argument and result
    boxA, boxB, result,               \* AABBs and return values
    beginT, endT, samples, factors, prev_value, length  \* bezierLength

vars == << pc, pointsA, pointsB, tollerance, stack, solutions, refined,
           broadPhase, aMin, aMax, bMin, bMax, minDist, iterations, index, otherIndex,
           paramsA, paramsB, params, newPoints, boxA, boxB, result,
           beginT, endT, samples, factors, prev_value, length >>

None == "None"

curveVars == << pointsA, pointsB, tollerance >>
narrowVars == << broadPhase, aMin, aMax, bMin, bMax, minDist, iterations >>
listVars == << stack, solutions, refined, paramsA, paramsB >>
loopVars == << index, otherIndex >>
subdivVars == << params, newPoints >>
aabbVars == << boxA, boxB >>
lengthVars == << beginT, endT, samples, factors, prev_value, length >>

\* the variables an operation does not use hold None
CurvesIdle == pointsA = None /\ pointsB = None /\ tollerance = None
NarrowIdle == /\ broadPhase = None /\ aMin = None /\ aMax = None /\ bMin = None /\ bMax = None
              /\ minDist = None /\ iterations = None
ListsIdle == /\ stack = None /\ solutions = None /\ refined = None
             /\ paramsA = None /\ paramsB = None
LoopIdle == index = None /\ otherIndex = None
SubdivIdle == params = None /\ newPoints = None
AabbIdle == boxA = None /\ boxB = None
LengthIdle == /\ beginT = None /\ endT = None /\ samples = None
              /\ factors = None /\ prev_value = None /\ length = None

At(s, i) == s[i + 1]

(***************************************************************************)
(* Exact arithmetic standing for the float arithmetic of the source.       *)
(***************************************************************************)
Abs(n) == IF n < 0 THEN -n ELSE n

RECURSIVE GCD(_, _)
GCD(a, b) == IF b = 0 THEN a ELSE GCD(b, a % b)

Rat(n, d) ==
    LET g == GCD(Abs(n), Abs(d))
        s == IF d < 0 THEN -1 ELSE 1
    IN  [num |-> s * (n \div g), den |-> s * (d \div g)]

Num(n) == [num |-> n, den |-> 1]

Inf == [num |-> 1, den |-> 0]

IsInf(x) == x.den = 0

Add(x, y) ==
    LET g == GCD(x.den, y.den)
    IN  Rat(x.num * (y.den \div g) + y.num * (x.den \div g), (x.den \div g) * y.den)

Neg(x) == [num |-> -x.num, den |-> x.den]

Sub(x, y) == Add(x, Neg(y))

Mul(x, y) ==
    LET g1 == GCD(Abs(x.num), y.den)
        g2 == GCD(Abs(y.num), x.den)
    IN  [num |-> (x.num \div g1) * (y.num \div g2),
         den |-> (x.den \div g2) * (y.den \div g1)]

\* x < y, with float('inf') greater than every finite number and not less than itself
Lt(x, y) ==
    IF IsInf(x) THEN FALSE
    ELSE IF IsInf(y) THEN TRUE
    ELSE LET g == GCD(x.den, y.den)
         IN  x.num * (y.den \div g) < y.num * (x.den \div g)

Gt(x, y) == Lt(y, x)

Le(x, y) == ~Lt(y, x)

RAbs(x) == [num |-> Abs(x.num), den |-> x.den]

\* the integer square root, by bisection: lo * lo <= n < hi * hi
RECURSIVE ISqrtBetween(_, _, _)
ISqrtBetween(n, lo, hi) ==
    IF hi - lo <= 1 THEN lo
    ELSE LET mid == (lo + hi) \div 2
         IN  IF mid * mid <= n THEN ISqrtBetween(n, mid, hi) ELSE ISqrtBetween(n, lo, mid)

ISqrt(n) == ISqrtBetween(n, 0, 46341)

\* math.sqrt, exact on the squares of rationals; the model only takes roots of such
Sqrt(x) == [num |-> ISqrt(x.num), den |-> ISqrt(x.den)]

Min2(x, y) == IF Lt(y, x) THEN y ELSE x

(***************************************************************************)
(* mathutils.Vector: a triple of numbers.                                  *)
(***************************************************************************)
Vector(x, y, z) == << Num(x), Num(y), Num(z) >>

VAdd(u, v) == << Add(u[1], v[1]), Add(u[2], v[2]), Add(u[3], v[3]) >>

VSub(u, v) == << Sub(u[1], v[1]), Sub(u[2], v[2]), Sub(u[3], v[3]) >>

VScale(v, k) == << Mul(v[1], k), Mul(v[2], k), Mul(v[3], k) >>

VDot(u, v) == Add(Add(Mul(u[1], v[1]), Mul(u[2], v[2])), Mul(u[3], v[3]))

VLength(v) == Sqrt(VDot(v, v))

(***************************************************************************)
(* Bezier evaluation and slicing.                                          *)
(***************************************************************************)
bezierPointAt(points, t) ==
    LET s == Sub(Num(1), t)
    IN  VAdd(VAdd(VAdd(VScale(At(points, 0), Mul(Mul(s, s), s)),
                       VScale(At(points, 1), Mul(Mul(Mul(Num(3), s), s), t))),
                  VScale(At(points, 2), Mul(Mul(Mul(Num(3), s), t), t))),
             VScale(At(points, 3), Mul(Mul(t, t), t)))

bezierTangentAt(points, t) ==
    LET s == Sub(Num(1), t)
    IN  VAdd(VAdd(VScale(VSub(At(points, 1), At(points, 0)), Mul(s, s)),
                  VScale(VSub(At(points, 2), At(points, 1)), Mul(Mul(Num(2), s), t))),
             VScale(VSub(At(points, 3), At(points, 2)), Mul(t, t)))

bezierSliceFromTo(points, minParam, maxParam) ==
    LET fromP == bezierPointAt(points, minParam)
        fromT == bezierTangentAt(points, minParam)
        toP == bezierPointAt(points, maxParam)
        toT == bezierTangentAt(points, maxParam)
        paramDiff == Sub(maxParam, minParam)
    IN  << fromP, VAdd(fromP, VScale(fromT, paramDiff)),
           VSub(toP, VScale(toT, paramDiff)), toP >>

(***************************************************************************)
(* Input curves.  Control points are integer so that every parameter on    *)
(* the grids below gives exact values.                                     *)
(***************************************************************************)
Curve(p0, p1, p2, p3) == << p0, p1, p2, p3 >>

\* the diagonal from (0,0,0) to (24,24,0), at constant speed
LineUp == Curve(Vector(0, 0, 0), Vector(8, 8, 0), Vector(16, 16, 0), Vector(24, 24, 0))
\* the other diagonal; meets LineUp at a = b = 1/2
LineDown == Curve(Vector(0, 24, 0), Vector(8, 16, 0), Vector(16, 8, 0), Vector(24, 0, 0))
\* the vertical x = 9; meets LineUp at a = b = 3/8
LineNine == Curve(Vector(9, 0, 0), Vector(9, 8, 0), Vector(9, 16, 0), Vector(9, 24, 0))
\* the arch (24t, 48t(1-t), 0)
Arch == Curve(Vector(0, 0, 0), Vector(8, 16, 0), Vector(16, 16, 0), Vector(24, 0, 0))
\* the horizontal y = 9; meets Arch at a = b = 1/4 and a = b = 3/4
LevelNine == Curve(Vector(0, 9, 0), Vector(8, 9, 0), Vector(16, 9, 0), Vector(24, 9, 0))
\* the horizontal y = 12; touches Arch at a = b = 1/2
LevelTwelve == Curve(Vector(0, 12, 0), Vector(8, 12, 0), Vector(16, 12, 0), Vector(24, 12, 0))
\* LineUp lifted to z = 1, with uneven handles
LineLifted == Curve(Vector(0, 0, 1), Vector(4, 4, 1), Vector(12, 12, 1), Vector(24, 24, 1))
\* a space curve with a loop-shaped control polygon
Twist == Curve(Vector(0, 0, 0), Vector(24, 0, 8), Vector(0, 24, 16), Vector(24, 24, 24))

Curves == { LineUp, LineDown, LineNine, Arch, LevelNine, LevelTwelve, LineLifted, Twist }

(***************************************************************************)
(* bezierSubivideAt                                                        *)
(***************************************************************************)
\* mutant: the gap to the previous split is not subtracted
ParamLeftFromZero(params_, index_) == At(params_, index_)

ParamLeft(params_, index_) ==
    IF index_ > 0 THEN Sub(At(params_, index_), At(params_, index_ - 1))
    ELSE At(params_, index_)

ParamRight(params_, index_) ==
    IF index_ = Len(params_) - 1 THEN Add(Neg(At(params_, index_)), Num(1))
    ELSE Add(Neg(At(params_, index_)), At(params_, index_ + 1))

RECURSIVE SubivideLoop(_, _, _, _)
SubivideLoop(points, params_, index_, newPoints_) ==
    IF index_ = Len(params_) THEN newPoints_
    ELSE LET param == At(params_, index_)
             point == bezierPointAt(points, param)
             tangent == bezierTangentAt(points, param)
         IN  SubivideLoop(points, params_, index_ + 1,
                 newPoints_ \o << VSub(point, VScale(tangent, ParamLeft(params_, index_))),
                                  point,
                                  VAdd(point, VScale(tangent, ParamRight(params_, index_))) >>)

bezierSubivideAt(points, params_) ==
    IF Len(params_) = 0 THEN << >>
    ELSE SubivideLoop(points, params_, 0,
             << VAdd(At(points, 0),
                     VScale(VSub(At(points, 1), At(points, 0)), At(params_, 0))) >>)
         \o << VSub(At(points, 3),
                    VScale(VSub(At(points, 3), At(points, 2)),
                           Sub(Num(1), At(params_, Len(params_) - 1)))) >>

\* split parameters are multiples of 1/ParamDen in (0,1), at most MaxParams of them
ParamDen == 4
MaxParams == 3

RECURSIVE AscendingFrom(_, _)
AscendingFrom(S, k) ==
    IF k > ParamDen - 1 THEN << >>
    ELSE IF k \in S THEN << Rat(k, ParamDen) >> \o AscendingFrom(S, k + 1)
    ELSE AscendingFrom(S, k + 1)

AscendingParams ==
    { AscendingFrom(S, 1) : S \in { T \in SUBSET (1..(ParamDen - 1)) : Cardinality(T) <= MaxParams } }

InitSubdivide ==
    /\ pc = "bezierSubivideAt"
    /\ pointsA \in Curves /\ pointsB = None /\ tollerance = None
    /\ params \in AscendingParams /\ newPoints = None
    /\ result = None
    /\ NarrowIdle /\ ListsIdle /\ LoopIdle /\ AabbIdle /\ LengthIdle

BezierSubivideAt ==
    /\ pc = "bezierSubivideAt"
    /\ newPoints' = bezierSubivideAt(pointsA, params)
    /\ pc' = "done"
    /\ UNCHANGED << curveVars, narrowVars, listVars, loopVars, params, aabbVars,
                    result, lengthVars >>

NextSubdivide == BezierSubivideAt

SpecSubdivide == InitSubdivide /\ [][NextSubdivide]_vars

\* the split positions with p_0 = 0 and p_{n+1} = 1
SplitAt(j) ==
    IF j = 0 THEN Num(0)
    ELSE IF j = Len(params) + 1 THEN Num(1)
    ELSE At(params, j - 1)

\* sub-segment j (0..n) read off the original end points and the output layout
\* [startHandle, (leftHandle, point, rightHandle) per split, endHandle]
SubSegment(j) ==
    << IF j = 0 THEN At(pointsA, 0) ELSE At(newPoints, 3 * (j - 1) + 2),
       At(newPoints, 3 * j),
       At(newPoints, 3 * j + 1),
       IF j = Len(params) THEN At(pointsA, 3) ELSE At(newPoints, 3 * j + 2) >>

\* sub-segments are compared with the original curve at multiples of 1/EvalDen
EvalDen == 2

\* C3: for non-empty ascending params in (0,1), bezierSubivideAt returns 3n+2 points,
\* every sub-segment read off the output equals bezierSliceFromTo between consecutive
\* split positions, and evaluates to the same points as the original curve.
C3_SubdivisionPreservesShape ==
    (pc = "done" /\ Len(params) > 0) =>
        /\ Len(newPoints) = 3 * Len(params) + 2
        /\ \A j \in 0..Len(params) :
              /\ SubSegment(j) = bezierSliceFromTo(pointsA, SplitAt(j), SplitAt(j + 1))
              /\ \A k \in 0..EvalDen :
                    bezierPointAt(SubSegment(j), Rat(k, EvalDen))
                      = bezierPointAt(pointsA,
                            Add(SplitAt(j),
                                Mul(Rat(k, EvalDen), Sub(SplitAt(j + 1), SplitAt(j)))))

C3_Witness ==
    /\ pc = "done" /\ pointsA = Twist /\ Len(params) = 3
    /\ Len(newPoints) = 11
    /\ At(newPoints, 5) = bezierPointAt(pointsA, Rat(1, 2))

(***************************************************************************)
(* aabbOfPoints and aabbIntersectionTest                                   *)
(***************************************************************************)
RECURSIVE MinMaxLoop(_, _, _, _)
MinMaxLoop(points, k, min, max) ==
    IF k = Len(points) THEN [min |-> min, max |-> max]
    ELSE LET point == At(points, k)
         IN  MinMaxLoop(points, k + 1,
                 << IF Gt(min[1], point[1]) THEN point[1] ELSE min[1],
                    IF Gt(min[2], point[2]) THEN point[2] ELSE min[2],
                    IF Gt(min[3], point[3]) THEN point[3] ELSE min[3] >>,
                 << IF Lt(max[1], point[1]) THEN point[1] ELSE max[1],
                    IF Lt(max[2], point[2]) THEN point[2] ELSE max[2],
                    IF Lt(max[3], point[3]) THEN point[3] ELSE max[3] >>)

aabbOfPoints(points) ==
    LET m == MinMaxLoop(points, 0, At(points, 0), At(points, 0))
    IN  [center |-> VScale(VAdd(m.max, m.min), Rat(1, 2)),
         dimensions |-> VSub(m.max, m.min)]

aabbIntersectionTest(a, b, tollerance_) ==
    \A i \in 1..3 :
        ~Gt(RAbs(Sub(a.center[i], b.center[i])),
            Add(Add(a.dimensions[i], b.dimensions[i]), tollerance_))

\* point lists of 1..MaxPoints points
MaxPoints == 2

BoxPoints == { Vector(0, 0, 0), Vector(2, 0, 0), Vector(3, 1, 0), Vector(5, 1, 0),
               Vector(1, 4, 2) }

PointLists == UNION { [1..n -> BoxPoints] : n \in 1..MaxPoints }

BoxTollerances == { Num(0), Rat(1, 1000), Num(1) }

InitAabb ==
    /\ pc = "aabbOfPointsA"
    /\ pointsA \in PointLists /\ pointsB \in PointLists
    /\ tollerance \in BoxTollerances
    /\ boxA = None /\ boxB = None /\ result = None
    /\ NarrowIdle /\ ListsIdle /\ LoopIdle /\ SubdivIdle /\ LengthIdle

AabbOfPointsA ==
    /\ pc = "aabbOfPointsA"
    /\ boxA' = aabbOfPoints(pointsA)
    /\ pc' = "aabbOfPointsB"
    /\ UNCHANGED << curveVars, narrowVars, listVars, loopVars, subdivVars, boxB,
                    result, lengthVars >>

AabbOfPointsB ==
    /\ pc = "aabbOfPointsB"
    /\ boxB' = aabbOfPoints(pointsB)
    /\ pc' = "aabbIntersectionTest"
    /\ UNCHANGED << curveVars, narrowVars, listVars, loopVars, subdivVars, boxA,
                    result, lengthVars >>

AabbIntersectionTest ==
    /\ pc = "aabbIntersectionTest"
    /\ result' = aabbIntersectionTest(boxA, boxB, tollerance)
    /\ pc' = "done"
    /\ UNCHANGED << curveVars, narrowVars, listVars, loopVars, subdivVars, aabbVars,
                    lengthVars >>

NextAabb == AabbOfPointsA \/ AabbOfPointsB \/ AabbIntersectionTest

SpecAabb == InitAabb /\ [][NextAabb]_vars

\* componentwise minimum and maximum of a point list, stated without the loop
Coordinates(points, i) == { points[k][i] : k \in 1..Len(points) }
LeastOf(S) == CHOOSE m \in S : \A x \in S : Le(m, x)
GreatestOf(S) == CHOOSE m \in S : \A x \in S : Le(x, m)
HalfExtent(points, i) ==
    Mul(Sub(GreatestOf(Coordinates(points, i)), LeastOf(Coordinates(points, i))), Rat(1, 2))
MidPoint(points, i) ==
    Mul(Add(GreatestOf(Coordinates(points, i)), LeastOf(Coordinates(points, i))), Rat(1, 2))

\* C6: aabbOfPoints returns center = (min+max)/2 and dimensions = (max-min)/2, so that
\* aabbIntersectionTest is true iff on every axis the distance of the centers is at
\* most the sum of the two half-extents plus the tolerance.
C6_HalfExtents ==
    pc = "done" =>
        /\ \A i \in 1..3 : /\ boxA.center[i] = MidPoint(pointsA, i)
                           /\ boxA.dimensions[i] = HalfExtent(pointsA, i)
                           /\ boxB.center[i] = MidPoint(pointsB, i)
                           /\ boxB.dimensions[i] = HalfExtent(pointsB, i)
        /\ result = (\A i \in 1..3 :
                        Le(RAbs(Sub(MidPoint(pointsA, i), MidPoint(pointsB, i))),
                           Add(Add(HalfExtent(pointsA, i), HalfExtent(pointsB, i)),
                               tollerance)))

(***************************************************************************)
(* bezierLength                                                            *)
(***************************************************************************)
LengthFactors(points) ==
    LET vec == << VSub(At(points, 1), At(points, 0)),
                  VSub(At(points, 2), At(points, 1)),
                  VSub(At(points, 3), At(points, 2)) >>
        dot == << VDot(At(vec, 0), At(vec, 0)), VDot(At(vec, 0), At(vec, 1)),
                  VDot(At(vec, 0), At(vec, 2)), VDot(At(vec, 1), At(vec, 1)),
                  VDot(At(vec, 1), At(vec, 2)), VDot(At(vec, 2), At(vec, 2)) >>
    IN  << At(dot, 0),
           Mul(Num(4), Sub(At(dot, 1), At(dot, 0))),
           Sub(Add(Add(Mul(Num(6), At(dot, 0)), Mul(Num(4), At(dot, 3))),
                   Mul(Num(2), At(dot, 2))),
               Mul(Num(12), At(dot, 1))),
           Sub(Add(Mul(Num(12), At(dot, 1)),
                   Mul(Num(4), Sub(Sub(At(dot, 4), At(dot, 0)), At(dot, 2)))),
               Mul(Num(8), At(dot, 3))),
           Add(Add(Add(At(dot, 0), At(dot, 5)), Mul(Num(2), At(dot, 2))),
               Mul(Num(4), Sub(Sub(At(dot, 3), At(dot, 1)), At(dot, 4)))) >>

\* the radicand of line 92, by Horner's scheme
Quartic(f, t) ==
    Add(Mul(Add(Mul(Add(Mul(Add(Mul(At(f, 4), t), At(f, 3)), t), At(f, 2)), t),
                At(f, 1)), t),
        At(f, 0))

SampleT(beginT_, endT_, index_, samples_) ==
    Add(beginT_, Mul(Mul(Sub(endT_, beginT_), Num(index_)), Rat(1, samples_)))

\* curves on one line through the origin: the speed is rational at every parameter
OnLine(dir, k0, k1, k2, k3) ==
    Curve(VScale(dir, Num(k0)), VScale(dir, Num(k1)), VScale(dir, Num(k2)),
          VScale(dir, Num(k3)))

LineDirections == { Vector(1, 0, 0), Vector(1, 2, 2) }

LengthCurves ==
    { OnLine(d, k[1], k[2], k[3], k[4]) :
        d \in LineDirections,
        k \in { << 0, 1, 2, 3 >>, << 0, 2, 4, 6 >>, << 0, 1, 3, 6 >>, << 0, 2, 2, 0 >> } }

MaxSamples == 3

Windows == { w \in { Num(0), Rat(1, 2), Num(1) } \X { Num(0), Rat(1, 2), Num(1) } :
               Le(w[1], w[2]) }

InitLength ==
    /\ pc = "bezierLength"
    /\ pointsA \in LengthCurves /\ pointsB = None /\ tollerance = None
    /\ \E w \in Windows : beginT = w[1] /\ endT = w[2]
    /\ samples \in 1..MaxSamples
    /\ factors = None /\ prev_value = None /\ length = None
    /\ index = None /\ otherIndex = None /\ result = None
    /\ NarrowIdle /\ ListsIdle /\ SubdivIdle /\ AabbIdle

\* lines 77-88
LengthSetup ==
    /\ pc = "bezierLength"
    /\ factors' = LengthFactors(pointsA)
    /\ length' = Num(0)
    /\ prev_value' = LET f == LengthFactors(pointsA)
                     IN  Sqrt(Add(Add(Add(Add(At(f, 4), At(f, 3)), At(f, 2)), At(f, 1)),
                                  At(f, 0)))
    /\ index' = 0
    /\ pc' = "bezierLengthLoop"
    /\ UNCHANGED << curveVars, narrowVars, listVars, otherIndex, subdivVars, aabbVars,
                    result, beginT, endT, samples >>

\* lines 89-94, one pass of the loop over range(0, samples+1)
LengthLoop ==
    /\ pc = "bezierLengthLoop"
    /\ index < samples + 1
    /\ LET t == SampleT(beginT, endT, index, samples)
           value == Sqrt(Quartic(factors, t))
       IN  /\ length' = Add(length, Mul(Add(prev_value, value), Rat(1, 2)))
           /\ prev_value' = value
    /\ index' = index + 1
    /\ UNCHANGED << pc, curveVars, narrowVars, listVars, otherIndex, subdivVars,
                    aabbVars, result, beginT, endT, samples, factors >>

\* line 95
LengthReturn ==
    /\ pc = "bezierLengthLoop"
    /\ index = samples + 1
    /\ result' = Mul(Mul(length, Num(3)), Rat(1, samples))
    /\ pc' = "done"
    /\ UNCHANGED << curveVars, narrowVars, listVars, loopVars, subdivVars, aabbVars,
                    lengthVars >>

NextLength == LengthSetup \/ LengthLoop \/ LengthReturn

SpecLength == InitLength /\ [][NextLength]_vars

\* the speed |dB/dt| = 3 |tangent| of the curve at t
Speed(points, t) == VLength(VScale(bezierTangentAt(points, t), Num(3)))

RECURSIVE SpeedSum(_, _, _, _, _)
SpeedSum(points, beginT_, endT_, samples_, k) ==
    IF k > samples_ THEN Num(0)
    ELSE Add(Mul(Speed(points, SampleT(beginT_, endT_, k, samples_)),
                 IF k = 0 \/ k = samples_ THEN Rat(1, 2) ELSE Num(1)),
             SpeedSum(points, beginT_, endT_, samples_, k + 1))

Trapezoid(points, beginT_, endT_, samples_) ==
    Mul(Mul(Sub(endT_, beginT_), Rat(1, samples_)),
        SpeedSum(points, beginT_, endT_, samples_, 0))

\* C7: bezierLength equals the composite trapezoidal rule for the speed over
\* [beginT, endT] with `samples` equal subintervals (so it is 0 when beginT = endT).
C7_TrapezoidalRule ==
    pc = "done" => result = Trapezoid(pointsA, beginT, endT, samples)

(***************************************************************************)
(* bezierIntersectionBroadPhase.  The recursion is a stack of pending      *)
(* calls: a call that splits is replaced by its four sub-calls in source   *)
(* order, so calls run in the order the recursion runs them.  Each call    *)
(* carries the value its tollerance parameter is bound to.                 *)
(***************************************************************************)
\* the default of the tollerance parameter (line 105)
BroadPhaseDefaultTollerance == Rat(1, 1000)

Call(depth, aMin_, aMax_, bMin_, bMax_, tollerance_) ==
    [depth |-> depth, aMin |-> aMin_, aMax |-> aMax_, bMin |-> bMin_, bMax |-> bMax_,
     tollerance |-> tollerance_]

\* mutant: the box of a slice is taken from its two end points only
SliceBoxOfEndPoints(points, minParam, maxParam) ==
    LET slice == bezierSliceFromTo(points, minParam, maxParam)
    IN  aabbOfPoints(<< At(slice, 0), At(slice, 3) >>)

SliceBox(points, minParam, maxParam) ==
    aabbOfPoints(bezierSliceFromTo(points, minParam, maxParam))

\* line 106
BroadPhaseTest(call, pointsA_, pointsB_) ==
    aabbIntersectionTest(SliceBox(pointsA_, call.aMin, call.aMax),
                         SliceBox(pointsB_, call.bMin, call.bMax),
                         call.tollerance)

\* lines 111-117: the sub-calls pass no tollerance, so each takes the default
BroadPhaseSubCalls(call) ==
    LET depth == call.depth - 1
        aMid == Mul(Add(call.aMin, call.aMax), Rat(1, 2))
        bMid == Mul(Add(call.bMin, call.bMax), Rat(1, 2))
    IN  << Call(depth, call.aMin, aMid, call.bMin, bMid, BroadPhaseDefaultTollerance),
           Call(depth, call.aMin, aMid, bMid, call.bMax, BroadPhaseDefaultTollerance),
           Call(depth, aMid, call.aMax, call.bMin, bMid, BroadPhaseDefaultTollerance),
           Call(depth, aMid, call.aMax, bMid, call.bMax, BroadPhaseDefaultTollerance) >>

MaxDepth == 2

BroadTollerances == { Num(0), Rat(1, 1000), Num(1) }

InitBroad ==
    /\ pc = "bezierIntersectionBroadPhase"
    /\ pointsA \in Curves /\ pointsB \in Curves
    /\ tollerance \in BroadTollerances
    /\ \E depth \in 0..MaxDepth :
          stack = << Call(depth, Num(0), Num(1), Num(0), Num(1), tollerance) >>
    /\ solutions = << >>
    /\ refined = None /\ paramsA = None /\ paramsB = None /\ result = None
    /\ NarrowIdle /\ LoopIdle /\ SubdivIdle /\ AabbIdle /\ LengthIdle

broadUnchanged == << pc, curveVars, narrowVars, refined, paramsA, paramsB, loopVars,
                     subdivVars, aabbVars, result, lengthVars >>

\* lines 106-107
BroadPhasePrune ==
    /\ pc = "bezierIntersectionBroadPhase"
    /\ stack # << >>
    /\ ~BroadPhaseTest(Head(stack), pointsA, pointsB)
    /\ stack' = Tail(stack)
    /\ UNCHANGED << solutions, broadUnchanged >>

\* lines 108-110
BroadPhaseRecord ==
    /\ pc = "bezierIntersectionBroadPhase"
    /\ stack # << >>
    /\ BroadPhaseTest(Head(stack), pointsA, pointsB)
    /\ Head(stack).depth = 0
    /\ solutions' = Append(solutions, << Head(stack).aMin, Head(stack).aMax,
                                         Head(stack).bMin, Head(stack).bMax >>)
    /\ stack' = Tail(stack)
    /\ UNCHANGED broadUnchanged

\* lines 111-117
BroadPhaseSplit ==
    /\ pc = "bezierIntersectionBroadPhase"
    /\ stack # << >>
    /\ BroadPhaseTest(Head(stack), pointsA, pointsB)
    /\ Head(stack).depth # 0
    /\ stack' = BroadPhaseSubCalls(Head(stack)) \o Tail(stack)
    /\ UNCHANGED << solutions, broadUnchanged >>

\* the outermost call returns
BroadPhaseReturn ==
    /\ pc = "bezierIntersectionBroadPhase"
    /\ stack = << >>
    /\ pc' = "done"
    /\ UNCHANGED << curveVars, narrowVars, listVars, loopVars, subdivVars, aabbVars,
                    result, lengthVars >>

NextBroad == BroadPhasePrune \/ BroadPhaseRecord \/ BroadPhaseSplit \/ BroadPhaseReturn

SpecBroad == InitBroad /\ [][NextBroad]_vars

\* true intersections are looked for at parameters that are multiples of 1/GridDen
GridDen == 8

Grid == { Rat(k, GridDen) : k \in 0..GridDen }

Covers(rect, a, b) ==
    /\ Le(At(rect, 0), a) /\ Le(a, At(rect, 1))
    /\ Le(At(rect, 2), b) /\ Le(b, At(rect, 3))

\* C5: the broad phase never prunes a true intersection: whenever
\* pointAt(A, a) = pointAt(B, b), the results hold a rectangle containing (a, b).
C5_NoTrueIntersectionPruned ==
    pc = "done" =>
        \A a \in Grid, b \in Grid :
            bezierPointAt(pointsA, a) = bezierPointAt(pointsB, b)
                => \E k \in 1..Len(solutions) : Covers(solutions[k], a, b)

\* two intersections of a curved pair, each covered by a rectangle of the finest level
C5_Witness ==
    /\ pc = "done" /\ pointsA = Arch /\ pointsB = LevelNine
    /\ bezierPointAt(pointsA, Rat(1, 4)) = bezierPointAt(pointsB, Rat(1, 4))
    /\ bezierPointAt(pointsA, Rat(3, 4)) = bezierPointAt(pointsB, Rat(3, 4))
    /\ \E k \in 1..Len(solutions) :
          /\ Covers(solutions[k], Rat(3, 4), Rat(3, 4))
          /\ Sub(At(solutions[k], 1), At(solutions[k], 0)) = Rat(1, 4)
    /\ Len(solutions) < 16

\* C8: at every level the overlap test is performed with the tolerance the broad
\* phase was called with: a rectangle is pruned exactly when its two slice boxes do
\* not intersect under that tolerance, and otherwise is recorded at depth 0 or split
\* into its four quadrants with depth decremented by 1.
C8_GivenTolleranceAtEveryLevel ==
    [][(pc = "bezierIntersectionBroadPhase" /\ stack # << >>) =>
         LET call == Head(stack)
             hit == aabbIntersectionTest(SliceBox(pointsA, call.aMin, call.aMax),
                                         SliceBox(pointsB, call.bMin, call.bMax),
                                         tollerance)
             subCalls == BroadPhaseSubCalls(call)
         IN  IF ~hit THEN stack' = Tail(stack) /\ solutions' = solutions
             ELSE IF call.depth = 0
                  THEN /\ stack' = Tail(stack)
                       /\ solutions' = Append(solutions, << call.aMin, call.aMax,
                                                            call.bMin, call.bMax >>)
                  ELSE /\ solutions' = solutions
                       /\ Len(stack') = Len(stack) + 3
                       /\ \A k \in 1..4 :
                             /\ stack'[k].depth = call.depth - 1
                             /\ stack'[k].aMin = subCalls[k].aMin
                             /\ stack'[k].aMax = subCalls[k].aMax
                             /\ stack'[k].bMin = subCalls[k].bMin
                             /\ stack'[k].bMax = subCalls[k].bMax
                             /\ stack'[k].tollerance = tollerance]_vars

(***************************************************************************)
(* bezierIntersectionNarrowPhase                                           *)
(***************************************************************************)
\* lines 125-134: the four distances in the order a1b1, a2b1, a1b2, a2b2
NarrowDistances(pointsA_, pointsB_, aMin_, aMax_, bMin_, bMax_) ==
    LET aMid == Mul(Add(aMin_, aMax_), Rat(1, 2))
        bMid == Mul(Add(bMin_, bMax_), Rat(1, 2))
        a1 == bezierPointAt(pointsA_, Mul(Add(aMin_, aMid), Rat(1, 2)))
        a2 == bezierPointAt(pointsA_, Mul(Add(aMid, aMax_), Rat(1, 2)))
        b1 == bezierPointAt(pointsB_, Mul(Add(bMin_, bMid), Rat(1, 2)))
        b2 == bezierPointAt(pointsB_, Mul(Add(bMid, bMax_), Rat(1, 2)))
    IN  << VLength(VSub(a1, b1)), VLength(VSub(a2, b1)),
           VLength(VSub(a1, b2)), VLength(VSub(a2, b2)) >>

\* line 135
MinOfDistances(d) == Min2(Min2(Min2(d[1], d[2]), d[3]), d[4])

\* mutant: the branches move the bounds of curve A, and of curve B only on a2b2
NarrowedRectOneSide(d, aMin_, aMax_, bMin_, bMax_) ==
    LET aMid == Mul(Add(aMin_, aMax_), Rat(1, 2))
        bMid == Mul(Add(bMin_, bMax_), Rat(1, 2))
        m == MinOfDistances(d)
    IN  IF d[1] = m THEN << aMin_, aMid, bMin_, bMax_ >>
        ELSE IF d[2] = m THEN << aMid, aMax_, bMin_, bMax_ >>
        ELSE IF d[3] = m THEN << aMin_, aMid, bMin_, bMax_ >>
        ELSE << aMid, aMax_, bMid, bMax_ >>

\* lines 136-147: << aMin, aMax, bMin, bMax >> after the branch of the first distance
\* equal to the minimum
NarrowedRect(d, aMin_, aMax_, bMin_, bMax_) ==
    LET aMid == Mul(Add(aMin_, aMax_), Rat(1, 2))
        bMid == Mul(Add(bMin_, bMax_), Rat(1, 2))
        m == MinOfDistances(d)
    IN  IF d[1] = m THEN << aMin_, aMid, bMin_, bMid >>
        ELSE IF d[2] = m THEN << aMid, aMax_, bMin_, bMid >>
        ELSE IF d[3] = m THEN << aMin_, aMid, bMid, bMax_ >>
        ELSE << aMid, aMax_, bMid, bMax_ >>

\* line 124
NarrowLoopCondition ==
    Gt(Sub(aMax, aMin), tollerance) \/ Gt(Sub(bMax, bMin), tollerance)

\* curves on one line, so that every distance is rational
NarrowCurves(d) ==
    { OnLine(d, k[1], k[2], k[3], k[4]) :
        k \in { << 0, 1, 2, 3 >>, << 3, 2, 1, 0 >>, << 0, 3, 0, 3 >>, << 1, 1, 1, 1 >> } }

\* candidate rectangles have their bounds on 0, 1/2 and 1, with min <= max
RectBounds ==
    { r \in { Num(0), Rat(1, 2), Num(1) } \X { Num(0), Rat(1, 2), Num(1) } : Le(r[1], r[2]) }

\* the parameter's default is 0.000001 (line 119); the loop depends on the widths and
\* the tolerance through their ratio only, and these ratios keep the midpoints on a
\* grid the exact arithmetic can hold
NarrowTollerances == { Rat(1, 8), Rat(1, 5), Rat(1, 3), Rat(1, 2), Num(1) }

\* the state after lines 120-123
InitNarrow ==
    /\ pc = "bezierIntersectionNarrowPhase"
    /\ \E d \in LineDirections : pointsA \in NarrowCurves(d) /\ pointsB \in NarrowCurves(d)
    /\ tollerance \in NarrowTollerances
    /\ \E a \in RectBounds, b \in RectBounds :
          /\ broadPhase = << a[1], a[2], b[1], b[2] >>
          /\ aMin = a[1] /\ aMax = a[2] /\ bMin = b[1] /\ bMax = b[2]
    /\ minDist = None /\ iterations = 0
    /\ result = None
    /\ ListsIdle /\ LoopIdle /\ SubdivIdle /\ AabbIdle /\ LengthIdle

\* lines 124-147, one pass of the loop
NarrowPhaseIterate ==
    /\ pc = "bezierIntersectionNarrowPhase"
    /\ NarrowLoopCondition
    /\ LET d == NarrowDistances(pointsA, pointsB, aMin, aMax, bMin, bMax)
           rect == NarrowedRect(d, aMin, aMax, bMin, bMax)
       IN  /\ minDist' = MinOfDistances(d)
           /\ aMin' = rect[1] /\ aMax' = rect[2] /\ bMin' = rect[3] /\ bMax' = rect[4]
    /\ iterations' = iterations + 1
    /\ UNCHANGED << pc, curveVars, broadPhase, listVars, loopVars, subdivVars, aabbVars,
                    result, lengthVars >>

\* line 148; minDist is unbound when the loop body never ran
NarrowPhaseReturn ==
    /\ pc = "bezierIntersectionNarrowPhase"
    /\ ~NarrowLoopCondition
    /\ result' = IF iterations = 0 THEN "UnboundLocalError"
                 ELSE << aMin, bMin, minDist >>
    /\ pc' = "done"
    /\ UNCHANGED << curveVars, narrowVars, listVars, loopVars, subdivVars, aabbVars,
                    lengthVars >>

NextNarrow == NarrowPhaseIterate \/ NarrowPhaseReturn

SpecNarrow == InitNarrow /\ [][NextNarrow]_vars

MaxOf(x, y) == IF Lt(x, y) THEN y ELSE x

MaxWidth(aMin_, aMax_, bMin_, bMax_) == MaxOf(Sub(aMax_, aMin_), Sub(bMax_, bMin_))

\* ceil(log2(w / tol)) for w > tol, and 0 for w <= tol
RECURSIVE CeilLog2Ratio(_, _)
CeilLog2Ratio(w, tol) ==
    IF Le(w, tol) THEN 0 ELSE 1 + CeilLog2Ratio(Mul(w, Rat(1, 2)), tol)

InitialWidth == MaxWidth(At(broadPhase, 0), At(broadPhase, 1),
                         At(broadPhase, 2), At(broadPhase, 3))

\* C4: for a rectangle with aMin <= aMax and bMin <= bMax the narrow phase loop
\* terminates within ceil(log2(W / tollerance)) iterations for the larger initial
\* width W: the loop body never runs more often than that, every run of it strictly
\* decreases the larger of the two widths, and once the count is reached the loop
\* condition is false.
C4_NarrowPhaseTerminates ==
    /\ [](iterations <= CeilLog2Ratio(InitialWidth, tollerance))
    /\ [](iterations = CeilLog2Ratio(InitialWidth, tollerance) => ~NarrowLoopCondition)
    /\ [][iterations' = iterations + 1 =>
            Lt(MaxWidth(aMin', aMax', bMin', bMax'), MaxWidth(aMin, aMax, bMin, bMax))]_vars

C4_Witness ==
    /\ pc = "done" /\ tollerance = Rat(1, 5)
    /\ InitialWidth = Num(1) /\ Sub(At(broadPhase, 3), At(broadPhase, 2)) = Rat(1, 2)
    /\ iterations = 3
    /\ aMin # At(broadPhase, 0)
    /\ Le(Sub(aMax, aMin), tollerance)

(***************************************************************************)
(* bezierIntersection, from the refined solutions on (lines 155-173).  A   *)
(* solution is << paramA, paramB, distance >> as the narrow phase returns  *)
(* it.                                                                     *)
(***************************************************************************)
Distance(solution) == At(solution, 2)

\* lines 161-163
Near(solution, other) ==
    LET diffA == Sub(At(solution, 0), At(other, 0))
        diffB == Sub(At(solution, 1), At(other, 1))
    IN  Lt(Add(Mul(diffA, diffA), Mul(diffB, diffB)), Rat(1, 100))

\* mutant: the solution of the outer loop is discarded whatever the distances
DiscardIndexAlways(solutions_, index_, otherIndex_) ==
    [solutions_ EXCEPT ![index_ + 1][3] = Inf]

\* mutant: the comparison is the wrong way round
DiscardSwapped(solutions_, index_, otherIndex_) ==
    IF Gt(Distance(At(solutions_, index_)), Distance(At(solutions_, otherIndex_)))
    THEN [solutions_ EXCEPT ![otherIndex_ + 1][3] = Inf]
    ELSE [solutions_ EXCEPT ![index_ + 1][3] = Inf]

\* mutant: on equal distances neither solution is discarded
DiscardStrict(solutions_, index_, otherIndex_) ==
    IF Lt(Distance(At(solutions_, index_)), Distance(At(solutions_, otherIndex_)))
    THEN [solutions_ EXCEPT ![otherIndex_ + 1][3] = Inf]
    ELSE IF Gt(Distance(At(solutions_, index_)), Distance(At(solutions_, otherIndex_)))
    THEN [solutions_ EXCEPT ![index_ + 1][3] = Inf]
    ELSE solutions_

\* lines 164-167
Discard(solutions_, index_, otherIndex_) ==
    IF Lt(Distance(At(solutions_, index_)), Distance(At(solutions_, otherIndex_)))
    THEN [solutions_ EXCEPT ![otherIndex_ + 1][3] = Inf]
    ELSE [solutions_ EXCEPT ![index_ + 1][3] = Inf]

\* lines 168-171: element k of every solution whose distance is below the tolerance
RECURSIVE FilterParams(_, _, _)
FilterParams(solutions_, tollerance_, k) ==
    IF solutions_ = << >> THEN << >>
    ELSE IF Lt(Distance(Head(solutions_)), tollerance_)
         THEN << At(Head(solutions_), k) >> \o FilterParams(Tail(solutions_), tollerance_, k)
         ELSE FilterParams(Tail(solutions_), tollerance_, k)

RECURSIVE Insert(_, _)
Insert(x, sorted) ==
    IF sorted = << >> THEN << x >>
    ELSE IF Lt(x, Head(sorted)) THEN << x >> \o sorted
    ELSE << Head(sorted) >> \o Insert(x, Tail(sorted))

\* list.sort()
RECURSIVE SortAscending(_)
SortAscending(list) ==
    IF list = << >> THEN << >> ELSE Insert(Head(list), SortAscending(Tail(list)))

\* mutant: the list is returned as it was filled
IntersectionParamsUnsorted(list, solutions_, tollerance_, k) ==
    list \o FilterParams(solutions_, tollerance_, k)

\* lines 168-173: the caller's list for element k (0: paramsA, 1: paramsB) after the
\* surviving solutions are appended to it and the whole list is sorted in place
IntersectionParams(list, solutions_, tollerance_, k) ==
    SortAscending(list \o FilterParams(solutions_, tollerance_, k))

MaxSolutions == 3

\* refined solutions: three places in the parameter square, the first near the second,
\* the second near the third, the first not near the third; three distances, two of
\* them below the default tolerance
SolutionPlaces == { << Num(0), Rat(1, 16) >>, << Rat(1, 16), Num(0) >>, << Rat(1, 8), Num(0) >> }

SolutionDistances == { Num(0), Rat(1, 2048), Rat(1, 512) }

RefinedSolutions == { << p[1], p[2], d >> : p \in SolutionPlaces, d \in SolutionDistances }

\* paramsA and paramsB are the caller's lists (line 150), filled in place: empty, or
\* holding a parameter greater than every parameter of RefinedSolutions
CallerLists == { << >>, << Rat(3, 4) >> }

\* the state after line 154; tollerance is the default of line 150
InitIntersection ==
    /\ pc = "deduplicate"
    /\ pointsA = None /\ pointsB = None
    /\ tollerance = Rat(1, 1000)
    /\ solutions \in UNION { [1..n -> RefinedSolutions] : n \in 0..MaxSolutions }
    /\ refined = solutions
    /\ stack = None
    /\ paramsA \in CallerLists /\ paramsB \in CallerLists
    /\ index = 0 /\ otherIndex = 0
    /\ result = None
    /\ NarrowIdle /\ SubdivIdle /\ AabbIdle /\ LengthIdle

dedupUnchanged == << pc, curveVars, narrowVars, stack, refined, paramsA, paramsB,
                     subdivVars, aabbVars, result, lengthVars >>

\* lines 155-156: the inner loop is exhausted
DedupNextIndex ==
    /\ pc = "deduplicate"
    /\ index < Len(solutions) /\ otherIndex = Len(solutions)
    /\ index' = index + 1 /\ otherIndex' = 0
    /\ UNCHANGED << solutions, dedupUnchanged >>

\* lines 157-158
DedupBreak ==
    /\ pc = "deduplicate"
    /\ index < Len(solutions) /\ otherIndex < Len(solutions)
    /\ IsInf(Distance(At(solutions, index)))
    /\ index' = index + 1 /\ otherIndex' = 0
    /\ UNCHANGED << solutions, dedupUnchanged >>

\* lines 159-160
DedupContinue ==
    /\ pc = "deduplicate"
    /\ index < Len(solutions) /\ otherIndex < Len(solutions)
    /\ ~IsInf(Distance(At(solutions, index)))
    /\ index = otherIndex \/ IsInf(Distance(At(solutions, otherIndex)))
    /\ otherIndex' = otherIndex + 1
    /\ UNCHANGED << solutions, index, dedupUnchanged >>

Compared ==
    /\ pc = "deduplicate"
    /\ index < Len(solutions) /\ otherIndex < Len(solutions)
    /\ ~IsInf(Distance(At(solutions, index)))
    /\ index # otherIndex /\ ~IsInf(Distance(At(solutions, otherIndex)))

\* lines 161-163, the test fails
DedupApart ==
    /\ Compared
    /\ ~Near(At(solutions, index), At(solutions, otherIndex))
    /\ otherIndex' = otherIndex + 1
    /\ UNCHANGED << solutions, index, dedupUnchanged >>

\* lines 161-167
DedupDiscard ==
    /\ Compared
    /\ Near(At(solutions, index), At(solutions, otherIndex))
    /\ solutions' = Discard(solutions, index, otherIndex)
    /\ otherIndex' = otherIndex + 1
    /\ UNCHANGED << index, dedupUnchanged >>

\* lines 168-173
FilterAndSort ==
    /\ pc = "deduplicate"
    /\ index = Len(solutions)
    /\ paramsA' = IntersectionParams(paramsA, solutions, tollerance, 0)
    /\ paramsB' = IntersectionParams(paramsB, solutions, tollerance, 1)
    /\ pc' = "done"
    /\ UNCHANGED << curveVars, narrowVars, stack, solutions, refined, loopVars,
                    subdivVars, aabbVars, result, lengthVars >>

NextIntersection ==
    \/ DedupNextIndex \/ DedupBreak \/ DedupContinue \/ DedupApart \/ DedupDiscard
    \/ FilterAndSort

SpecIntersection == InitIntersection /\ [][NextIntersection]_vars

Ascending(list) == \A k \in 1..(Len(list) - 1) : Le(list[k], list[k + 1])

Kept(k) == ~IsInf(Distance(solutions[k]))

\* C1: called with empty paramsA and paramsB, bezierIntersection returns them with the
\* same length, each sorted ascending; when no refined solution has a distance below
\* the tolerance both are empty.
C1_SortedSameLength ==
    [][(pc = "deduplicate" /\ pc' = "done" /\ paramsA = << >> /\ paramsB = << >>)
       => /\ Len(paramsA') = Len(paramsB')
          /\ Ascending(paramsA') /\ Ascending(paramsB')
          /\ (\A k \in 1..Len(refined) : ~Lt(Distance(refined[k]), tollerance))
                => paramsA' = << >> /\ paramsB' = << >>]_vars

\* two survivors whose order along curve A is the reverse of their order along curve B,
\* returned in lists that hold nothing else (the caller passed them empty)
C1_Witness ==
    /\ pc = "done" /\ Len(refined) = 3
    /\ Len(paramsA) = 2 /\ Len(paramsB) = 2
    /\ \E i, j \in 1..3 : /\ i < j /\ Kept(i) /\ Kept(j)
                          /\ Lt(solutions[i][1], solutions[j][1])
                          /\ Gt(solutions[i][2], solutions[j][2])
                          /\ paramsB = << solutions[j][2], solutions[i][2] >>

\* C2: when the pass compares two solutions that are both not discarded, are near each
\* other and have different distances, it keeps the one with the smaller distance
\* unchanged and sets the distance of the other to +infinity; of a list of exactly two
\* such solutions, in either order, exactly the lower-distance one remains.
C2_LowerDistanceKept ==
    /\ [][(/\ Compared
           /\ Near(At(solutions, index), At(solutions, otherIndex))
           /\ Distance(At(solutions, index)) # Distance(At(solutions, otherIndex)))
          => LET lower == IF Lt(Distance(At(solutions, index)),
                                Distance(At(solutions, otherIndex)))
                          THEN index ELSE otherIndex
                 higher == IF lower = index THEN otherIndex ELSE index
             IN  /\ At(solutions', lower) = At(solutions, lower)
                 /\ Distance(At(solutions', higher)) = Inf]_vars
    /\ []((/\ pc = "done" /\ Len(refined) = 2
           /\ Near(refined[1], refined[2])
           /\ Distance(refined[1]) # Distance(refined[2]))
          => LET lower == IF Lt(Distance(refined[1]), Distance(refined[2])) THEN 1 ELSE 2
             IN  /\ solutions[lower] = refined[lower]
                 /\ Distance(solutions[3 - lower]) = Inf)

\* the lower-distance solution comes second in the list and is the one that remains
C2_Witness ==
    /\ pc = "done" /\ Len(refined) = 2
    /\ Near(refined[1], refined[2])
    /\ Lt(Distance(refined[2]), Distance(refined[1]))
    /\ ~Kept(1) /\ solutions[2] = refined[2]

\* C9: after the pass no two distinct solutions that both still have a finite distance
\* are near each other.
C9_NoNearPairSurvives ==
    pc = "done" =>
        \A i, j \in 1..Len(solutions) :
            (i # j /\ Kept(i) /\ Kept(j)) => ~Near(solutions[i], solutions[j])

\* a chain: first near second, second near third, first not near third, and the two
\* ends survive
C9_Witness ==
    /\ pc = "done" /\ Len(refined) = 3
    /\ Near(refined[1], refined[2]) /\ Near(refined[2], refined[3])
    /\ ~Near(refined[1], refined[3])
    /\ Kept(1) /\ ~Kept(2) /\ Kept(3)

MinimumDistance == LeastOf({ Distance(refined[k]) : k \in 1..Len(refined) })

\* C10: the pass never discards every solution of minimum distance: at least one
\* solution whose distance is the minimum of the input keeps it, so if any refined
\* solution has a distance below the tolerance the returned lists hold the parameters
\* of a solution of minimum distance (and so are not empty).
C10_MinimumDistanceSurvives ==
    /\ Len(refined) > 0 =>
          \E k \in 1..Len(refined) : /\ Distance(refined[k]) = MinimumDistance
                                     /\ Distance(solutions[k]) = MinimumDistance
    /\ (pc = "done" /\ \E k \in 1..Len(refined) : Lt(Distance(refined[k]), tollerance))
          => /\ paramsA # << >> /\ paramsB # << >>
             /\ \E k \in 1..Len(refined) :
                /\ Distance(refined[k]) = MinimumDistance
                /\ \E i \in 1..Len(paramsA) : paramsA[i] = refined[k][1]
                /\ \E i \in 1..Len(paramsB) : paramsB[i] = refined[k][2]

\* three near solutions tie for the minimum and exactly one of them survives
C10_Witness ==
    /\ pc = "done" /\ Len(refined) = 3
    /\ \A k \in 1..3 : Distance(refined[k]) = MinimumDistance
    /\ Near(refined[1], refined[2]) /\ Near(refined[2], refined[3])
    /\ Cardinality({ k \in 1..3 : Kept(k) }) = 1
    /\ \E k \in 1..3 : Kept(k) /\ paramsA = << solutions[k][1] >>
                                /\ paramsB = << solutions[k][2] >>

(***************************************************************************)
(* The whole module: any one of the operations, from any of its inputs.    *)
(***************************************************************************)
Init ==
    \/ InitAabb \/ InitLength \/ InitBroad \/ InitNarrow \/ InitIntersection
    \/ InitSubdivide

Next ==
    \/ NextAabb \/ NextLength \/ NextBroad \/ NextNarrow \/ NextIntersection
    \/ NextSubdivide

Spec == Init /\ [][Next]_vars

====
